---- MODULE Spec2Model ----
(***************************************************************************)
(* Indexed Merkle tree (src/src/imt.rs): a sorted linked list of nodes     *)
(* (key -> next_key) laid over a fixed-depth Merkle tree whose subtree     *)
(* digests are cached sparsely per level.  insert_node and update_node     *)
(* mutate the tree and return the sibling paths a verifier needs.          *)
(*                                                                         *)
(* Digests are symbolic: Keccak(x) wraps its input between two bracket     *)
(* marks, so that Keccak is injective and a concatenation of digests       *)
(* parses uniquely (as the concatenation of fixed 32-byte digests does).   *)
(* u64 arithmetic is taken modulo 2^WordBits.  What an operation does when  *)
(* its exact result leaves the range of a u64 depends on the build: with   *)
(* overflow checks (the default of a debug build) the call panics and is   *)
(* abandoned where it stands, without them (the default of a release       *)
(* build) the result wraps.  Both builds are behaviours of the model.      *)
(***************************************************************************)
EXTENDS Integers, Sequences, FiniteSets, TLC

VARIABLES root, size, depth, nodes, hashes, last, overflow_checks

vars == <<root, size, depth, nodes, hashes, last, overflow_checks>>

\* ---------------------------------------------------------------- bounds

MaxDepth == 2
MaxKey == 3
WordBits == 16

\* The number of panics in the middle of a call that a behaviour goes on
\* after (each one caught by the caller, who keeps the tree).
MaxAbandoned == 2

Depths == 0..MaxDepth
Keys == 0..MaxKey

\* ------------------------------------------------- primitive types, hashing

\* K::default(): the minimal key, the sentinel and the "no successor" mark.
KeyDefault == 0

\* V::default(): the value of the sentinel node.
ValueDefault == 0

\* A payload other than the default; values are opaque to the tree, which
\* only stores and hashes them.
OtherValue == 1

Values == {ValueDefault, OtherValue}

\* Option::None for a cached digest; no digest is the empty sequence.
None == <<>>

\* Hash::default(): the root field before the first refresh.
HashDefault == <<0>>

\* The modulus of u64 arithmetic, scaled to WordBits bits.
U64 == 2 ^ WordBits

\* The panics of checked arithmetic, as results no u64 has; an operation on
\* a panic is never evaluated and hands the panic on.
AddOverflow == -1

SubOverflow == -2

MulOverflow == -3

IsPanic(x) == x < 0

PanicMessage(x) ==
    CASE x = AddOverflow -> "attempt to add with overflow"
      [] x = SubOverflow -> "attempt to subtract with overflow"
      [] x = MulOverflow -> "attempt to multiply with overflow"

\* a + b in u64: a panic with overflow checks, wrapped without them.
U64Add(a, b) ==
    IF IsPanic(a) THEN a
    ELSE IF IsPanic(b) THEN b
    ELSE IF a + b < U64 THEN a + b
    ELSE IF overflow_checks THEN AddOverflow
    ELSE (a + b) % U64

\* a - b in u64
U64Sub(a, b) ==
    IF IsPanic(a) THEN a
    ELSE IF IsPanic(b) THEN b
    ELSE IF a - b >= 0 THEN a - b
    ELSE IF overflow_checks THEN SubOverflow
    ELSE (a - b) % U64

\* a * b in u64
U64Mul(a, b) ==
    IF IsPanic(a) THEN a
    ELSE IF IsPanic(b) THEN b
    ELSE IF a * b < U64 THEN a * b
    ELSE IF overflow_checks THEN MulOverflow
    ELSE (a * b) % U64

\* Keccak::v256 over the concatenation of everything passed to update().
Keccak(input) == <<-1>> \o input \o <<-2>>

RECURSIVE ShiftRightBytes(_, _)
ShiftRightBytes(n, j) == IF j = 0 THEN n ELSE ShiftRightBytes(n \div 256, j - 1)

\* u64::to_be_bytes: 8 bytes, most significant first.
ToBeBytes(n) == [i \in 1..8 |-> ShiftRightBytes(n, 8 - i) % 256]

\* IMTNode::hash: the digest of a node's four fields.
NodeHash(node) == Keccak(<<node.index, node.key, node.value, node.next_key>>)

\* IMTNode::is_ln_of: the node is the low nullifier of node_key.
IsLnOf(node, node_key) ==
    /\ node.key < node_key
    /\ (node.next_key > node_key \/ node.next_key = KeyDefault)

\* ------------------------------------------------------------- hash maps

MapGet(m, k) == IF k \in DOMAIN m THEN m[k] ELSE None

MapInsert(m, k, v) == [x \in DOMAIN m \cup {k} |-> IF x = k THEN v ELSE m[x]]

EmptyMap == <<>>

\* self.hashes.entry(level).or_default()
EntryOrDefault(hs, level) ==
    IF level \in DOMAIN hs THEN hs ELSE MapInsert(hs, level, EmptyMap)

\* Mutant: the level's map is replaced by one holding only the new entry.
CacheInsertReplacingLevel(hs, level, index, hash) ==
    LET hs1 == EntryOrDefault(hs, level)
    IN  [hs1 EXCEPT ![level] = MapInsert(EmptyMap, index, hash)]

\* self.hashes.entry(level).or_default().insert(index, hash)
CacheInsert(hs, level, index, hash) ==
    LET hs1 == EntryOrDefault(hs, level)
    IN  [hs1 EXCEPT ![level] = MapInsert(@, index, hash)]

\* self.hashes.get(&level).and_then(|m| m.get(&index).cloned())
CacheGet(hs, level, index) ==
    IF level \in DOMAIN hs THEN MapGet(hs[level], index) ELSE None

\* --------------------------------------------------------- the tree updater

Tree(r, s, d, ns, hs) == [root |-> r, size |-> s, depth |-> d, nodes |-> ns, hashes |-> hs]

\* Mutant: the sibling is always taken to be the next position.
SiblingIndexAlwaysNext(index) == U64Add(index, 1)

\* 1 - 2 * (index % 2) in u64
SiblingOffset(index) == U64Sub(1, U64Mul(2, index % 2))

\* index + (1 - 2 * (index % 2)) in u64
SiblingIndex(index) == U64Add(index, SiblingOffset(index))

\* The exact results of the four operations of index + (1 - 2 * (index % 2)),
\* each on the u64 operands it is given: the remainder, the product, the
\* difference and (where the difference is reduced to 64 bits instead of
\* panicking) the sum.
SiblingIntermediates(index) ==
    <<index % 2,
      2 * (index % 2),
      1 - 2 * (index % 2),
      index + ((1 - 2 * (index % 2)) % U64)>>

\* The digest of the unreachable!() arm: no digest of a live tree holds it.
Unreachable == <<-3>>

\* Mutant: only the first present operand is hashed.
CombineFirstOnly(left, right) == IF left = None THEN Keccak(right) ELSE Keccak(left)

\* match (left, right) { ... } k.finalize(&mut hash)
Combine(left, right) ==
    CASE left = None /\ right = None -> Unreachable
      [] left = None /\ right # None -> Keccak(right)
      [] left # None /\ right = None -> Keccak(left)
      [] OTHER -> Keccak(left \o right)

\* Mutant: the child is always taken as the left operand.
LeftRightIgnoringParity(index, hash, sibling_hash) == <<hash, sibling_hash>>

\* (left, right) by the parity of the child's index
LeftRight(index, hash, sibling_hash) ==
    IF index % 2 = 0 THEN <<hash, sibling_hash>> ELSE <<sibling_hash, hash>>

\* Mutant: the index is not halved when climbing.
ParentIndexNotHalved(index) == index

\* index /= 2
ParentIndex(index) == index \div 2

\* for level in (1..=self.depth).rev() { ... } of refresh_tree; a panic of
\* the sibling arithmetic leaves the loop with the cache as it then is.
RECURSIVE Climb(_, _, _, _, _)
Climb(hs, level, index, hash, siblings) ==
    IF level < 1
    THEN [hashes |-> hs, hash |-> hash, siblings |-> siblings, outcome |-> "ok"]
    ELSE LET sibling_index == SiblingIndex(index)
             hs1 == EntryOrDefault(hs, level)
             sibling_hash == MapGet(hs1[level], sibling_index)
             lr == LeftRight(index, hash, sibling_hash)
             parent == Combine(lr[1], lr[2])
             parent_index == ParentIndex(index)
             hs2 == CacheInsert(hs1, level - 1, parent_index, parent)
         IN  IF IsPanic(sibling_index)
             THEN [hashes |-> hs, hash |-> hash, siblings |-> siblings,
                   outcome |-> PanicMessage(sibling_index)]
             ELSE Climb(hs2, level - 1, parent_index, parent,
                        Append(siblings, sibling_hash))

\* Mutant: the size is left out of the root.
RootHashWithoutSize(top, tree_size) == Keccak(top)

\* self.root = keccak(hash, self.size.to_be_bytes())
RootHash(top, tree_size) == Keccak(top \o ToBeBytes(tree_size))

\* refresh_tree: the refreshed tree and the sibling path of the climb; when
\* the climb panics the root is not reached and no path is returned.
RefreshTree(t, node_key) ==
    LET node == t.nodes[node_key]
        hash == NodeHash(node)
        hs0 == CacheInsert(t.hashes, t.depth, node.index, hash)
        up == Climb(hs0, t.depth, node.index, hash, <<>>)
    IN  IF up.outcome # "ok"
        THEN [tree |-> [t EXCEPT !.hashes = up.hashes],
              siblings |-> <<>>, outcome |-> up.outcome]
        ELSE [tree |-> [t EXCEPT !.hashes = up.hashes, !.root = RootHash(up.hash, t.size)],
              siblings |-> up.siblings, outcome |-> "ok"]

\* for level in (1..=self.depth).rev() { ... } of siblings
RECURSIVE SiblingsFrom(_, _, _, _)
SiblingsFrom(hs, level, index, siblings) ==
    IF level < 1
    THEN [siblings |-> siblings, outcome |-> "ok"]
    ELSE LET sibling_index == SiblingIndex(index)
             sibling_hash == CacheGet(hs, level, sibling_index)
         IN  IF IsPanic(sibling_index)
             THEN [siblings |-> <<>>, outcome |-> PanicMessage(sibling_index)]
             ELSE SiblingsFrom(hs, level - 1, ParentIndex(index),
                               Append(siblings, sibling_hash))

\* siblings: the sibling path of a live node, read from the cache, or the
\* panic of the sibling arithmetic
Siblings(t, node_key) == SiblingsFrom(t.hashes, t.depth, t.nodes[node_key].index, <<>>)

\* low_nullifier: the nodes the scan can return (the first match in the
\* map's unspecified iteration order)
LowNullifiers(t, node_key) ==
    {t.nodes[k] : k \in {x \in DOMAIN t.nodes : IsLnOf(t.nodes[x], node_key)}}

\* --------------------------------------------------------------- operations

NoNode == [index |-> 0, key |-> KeyDefault, value |-> ValueDefault, next_key |-> KeyDefault]

\* What a call leaves behind: its arguments, its outcome and the IMTMutate
\* bundle it returns; mid is the tree between the two refreshes of an insert,
\* pre the tree as the call found it, and torn the number of calls so far
\* that panicked after they had begun to write to the tree.
Call(op, key, value, outcome) ==
    [op |-> op, key |-> key, value |-> value, outcome |-> outcome,
     old_root |-> None, old_size |-> 0,
     ln_node |-> NoNode, ln_siblings |-> <<>>,
     node |-> NoNode, node_siblings |-> <<>>,
     updated_ln_siblings |-> <<>>, new_value |-> ValueDefault,
     mid |-> <<>>, pre |-> <<>>, torn |-> 0]

\* A call that panicked: the tree as the panic left it and no bundle.
Abandoned(t, op, key, value, outcome) ==
    [tree |-> t, call |-> Call(op, key, value, outcome)]

\* Imt::new
New(d) ==
    LET init_node == [index |-> 0, key |-> KeyDefault, value |-> ValueDefault,
                      next_key |-> KeyDefault]
        imt == Tree(HashDefault, 0, d, MapInsert(EmptyMap, KeyDefault, init_node), EmptyMap)
    IN  RefreshTree(imt, KeyDefault).tree

\* Mutant: the leaf of the sentinel is not counted.
MaxSizeAllLeaves(d) == 2 ^ d

\* (1 << self.depth) - 1
MaxSize(d) == U64Sub(2 ^ d, 1)

\* let node_index = { self.size += 1; self.size }
BumpSize(t) == [t EXCEPT !.size = U64Add(@, 1)]

\* Mutant: the link is written to the copy of the node, not to the map.
RelinkCopyOnly(t, ln_node, key) == t

\* self.nodes.get_mut(&ln_node.key).expect(..).next_key = key
Relink(t, ln_node, key) == [t EXCEPT !.nodes[ln_node.key].next_key = key]

\* Mutant: the new node is created without a successor.
NewNodeNoSuccessor(node_index, key, value, ln_node) ==
    [index |-> node_index, key |-> key, value |-> value, next_key |-> KeyDefault]

\* Mutant: the new node takes the predecessor's key for its link.
NewNodeBackLink(node_index, key, value, ln_node) ==
    [index |-> node_index, key |-> key, value |-> value, next_key |-> ln_node.key]

\* let node = IMTNode { index: node_index, key, value, next_key: ln_node.next_key }
NewNode(node_index, key, value, ln_node) ==
    [index |-> node_index, key |-> key, value |-> value, next_key |-> ln_node.next_key]

\* self.nodes.insert(node.key, node)
StoreNode(t, node) == [t EXCEPT !.nodes = MapInsert(@, node.key, node)]

\* Mutant: the new node is stored and refreshed before the predecessor is
\* relinked and refreshed.
InsertBodyNodeFirst(t, key, value, ln_node) ==
    LET old_root == t.root
        old_size == t.size
        t1 == BumpSize(t)
        node_index == t1.size
        ln_siblings == Siblings(t1, ln_node.key)
        node == NewNode(node_index, key, value, ln_node)
        r1 == RefreshTree(StoreNode(t1, node), key)
        r2 == RefreshTree(Relink(r1.tree, ln_node, key), ln_node.key)
        updated_ln_siblings == Siblings(r2.tree, ln_node.key)
    IN  IF ln_siblings.outcome # "ok"
        THEN Abandoned(t1, "insert", key, value, ln_siblings.outcome)
        ELSE IF r1.outcome # "ok"
        THEN Abandoned(r1.tree, "insert", key, value, r1.outcome)
        ELSE IF r2.outcome # "ok"
        THEN Abandoned(r2.tree, "insert", key, value, r2.outcome)
        ELSE IF updated_ln_siblings.outcome # "ok"
        THEN Abandoned(r2.tree, "insert", key, value, updated_ln_siblings.outcome)
        ELSE [tree |-> r2.tree,
              call |-> [Call("insert", key, value, "ok") EXCEPT
                          !.old_root = old_root, !.old_size = old_size,
                          !.ln_node = ln_node, !.ln_siblings = ln_siblings.siblings,
                          !.node = node, !.node_siblings = r1.siblings,
                          !.updated_ln_siblings = updated_ln_siblings.siblings,
                          !.mid = r1.tree]]

\* Mutant: the predecessor's second path is read before the new node is
\* stored and refreshed.
InsertBodyEarlySecondPath(t, key, value, ln_node) ==
    LET old_root == t.root
        old_size == t.size
        t1 == BumpSize(t)
        node_index == t1.size
        ln_siblings == Siblings(t1, ln_node.key)
        r1 == RefreshTree(Relink(t1, ln_node, key), ln_node.key)
        updated_ln_siblings == Siblings(r1.tree, ln_node.key)
        node == NewNode(node_index, key, value, ln_node)
        r2 == RefreshTree(StoreNode(r1.tree, node), key)
    IN  IF ln_siblings.outcome # "ok"
        THEN Abandoned(t1, "insert", key, value, ln_siblings.outcome)
        ELSE IF r1.outcome # "ok"
        THEN Abandoned(r1.tree, "insert", key, value, r1.outcome)
        ELSE IF updated_ln_siblings.outcome # "ok"
        THEN Abandoned(r1.tree, "insert", key, value, updated_ln_siblings.outcome)
        ELSE IF r2.outcome # "ok"
        THEN Abandoned(r2.tree, "insert", key, value, r2.outcome)
        ELSE [tree |-> r2.tree,
              call |-> [Call("insert", key, value, "ok") EXCEPT
                          !.old_root = old_root, !.old_size = old_size,
                          !.ln_node = ln_node, !.ln_siblings = ln_siblings.siblings,
                          !.node = node, !.node_siblings = r2.siblings,
                          !.updated_ln_siblings = updated_ln_siblings.siblings,
                          !.mid = r1.tree]]

\* insert_node once both assertions passed, with ln_node the low nullifier
\* the scan returned; a panic of siblings or refresh_tree abandons the call
\* with whatever it has written so far.
InsertBody(t, key, value, ln_node) ==
    LET old_root == t.root
        old_size == t.size
        t1 == BumpSize(t)
        node_index == t1.size
        ln_siblings == Siblings(t1, ln_node.key)
        r1 == RefreshTree(Relink(t1, ln_node, key), ln_node.key)
        node == NewNode(node_index, key, value, ln_node)
        r2 == RefreshTree(StoreNode(r1.tree, node), key)
        updated_ln_siblings == Siblings(r2.tree, ln_node.key)
    IN  IF ln_siblings.outcome # "ok"
        THEN Abandoned(t1, "insert", key, value, ln_siblings.outcome)
        ELSE IF r1.outcome # "ok"
        THEN Abandoned(r1.tree, "insert", key, value, r1.outcome)
        ELSE IF r2.outcome # "ok"
        THEN Abandoned(r2.tree, "insert", key, value, r2.outcome)
        ELSE IF updated_ln_siblings.outcome # "ok"
        THEN Abandoned(r2.tree, "insert", key, value, updated_ln_siblings.outcome)
        ELSE [tree |-> r2.tree,
              call |-> [Call("insert", key, value, "ok") EXCEPT
                          !.old_root = old_root, !.old_size = old_size,
                          !.ln_node = ln_node, !.ln_siblings = ln_siblings.siblings,
                          !.node = node, !.node_siblings = r2.siblings,
                          !.updated_ln_siblings = updated_ln_siblings.siblings,
                          !.mid = r1.tree]]

\* self.nodes.contains_key(&key)
ContainsKey(t, key) == key \in DOMAIN t.nodes

\* Mutant: the size is incremented before the key is looked up.
InsertNodeCountsFirst(t, key, value, ln_node) ==
    IF ~(t.size < MaxSize(t.depth))
    THEN Abandoned(t, "insert", key, value, "tree overflow")
    ELSE IF ContainsKey(t, key)
    THEN Abandoned(BumpSize(t), "insert", key, value, "key conflict")
    ELSE IF LowNullifiers(BumpSize(t), key) = {}
    THEN Abandoned(BumpSize(t), "insert", key, value, "failed to found ln node")
    ELSE InsertBody(t, key, value, ln_node)

\* insert_node with the scan's choice ln_node (NoNode when the scan finds
\* nothing, which panics after the size was incremented)
InsertNode(t, key, value, ln_node) ==
    IF ~(t.size < MaxSize(t.depth))
    THEN Abandoned(t, "insert", key, value, "tree overflow")
    ELSE IF ContainsKey(t, key)
    THEN Abandoned(t, "insert", key, value, "key conflict")
    ELSE IF LowNullifiers(BumpSize(t), key) = {}
    THEN Abandoned(BumpSize(t), "insert", key, value, "failed to found ln node")
    ELSE InsertBody(t, key, value, ln_node)

\* Mutant: the node is copied for the bundle before its value is replaced.
UpdateNodeEarlySnapshot(t, key, value) ==
    IF key \notin DOMAIN t.nodes
    THEN Abandoned(t, "update", key, value, "node does not exist")
    ELSE LET node == t.nodes[key]
             t1 == [t EXCEPT !.nodes[key].value = value]
             r == RefreshTree(t1, key)
         IN  IF r.outcome # "ok"
             THEN Abandoned(r.tree, "update", key, value, r.outcome)
             ELSE [tree |-> r.tree,
                   call |-> [Call("update", key, value, "ok") EXCEPT
                               !.old_root = t.root, !.old_size = t.size,
                               !.node = node, !.node_siblings = r.siblings,
                               !.new_value = value]]

\* update_node; a panic of refresh_tree abandons the call after the value
\* was written
UpdateNode(t, key, value) ==
    IF key \notin DOMAIN t.nodes
    THEN Abandoned(t, "update", key, value, "node does not exist")
    ELSE LET old_root == t.root
             tree_size == t.size
             t1 == [t EXCEPT !.nodes[key].value = value]
             node == t1.nodes[key]
             r == RefreshTree(t1, key)
         IN  IF r.outcome # "ok"
             THEN Abandoned(r.tree, "update", key, value, r.outcome)
             ELSE [tree |-> r.tree,
                   call |-> [Call("update", key, value, "ok") EXCEPT
                               !.old_root = old_root, !.old_size = tree_size,
                               !.node = node, !.node_siblings = r.siblings,
                               !.new_value = value]]

\* ------------------------------------------------------------ state machine

Cur == Tree(root, size, depth, nodes, hashes)

\* The outcomes of a call that was abandoned after its first write: every
\* panic but those of the checks that precede the writes.
MidwayPanic(outcome) ==
    outcome \notin {"ok", "tree overflow", "key conflict", "node does not exist"}

Install(res) ==
    /\ MidwayPanic(res.call.outcome) => last.torn < MaxAbandoned
    /\ root' = res.tree.root
    /\ size' = res.tree.size
    /\ depth' = res.tree.depth
    /\ nodes' = res.tree.nodes
    /\ hashes' = res.tree.hashes
    /\ last' = [res.call EXCEPT
                   !.pre = Cur,
                   !.torn = IF MidwayPanic(res.call.outcome) THEN last.torn + 1
                            ELSE last.torn]
    /\ UNCHANGED overflow_checks

Init ==
    \E d \in Depths, checks \in BOOLEAN :
        /\ overflow_checks = checks
        /\ root = New(d).root
        /\ size = New(d).size
        /\ depth = d
        /\ nodes = New(d).nodes
        /\ hashes = New(d).hashes
        /\ last = Call("new", KeyDefault, ValueDefault, "ok")

\* The candidates of the scan in the state insert_node runs it in.
ScanChoices(key) ==
    LET c == LowNullifiers(BumpSize(Cur), key)
    IN  IF c = {} THEN {NoNode} ELSE c

Insert ==
    \E key \in Keys, value \in Values :
        \E ln_node \in ScanChoices(key) :
            Install(InsertNode(Cur, key, value, ln_node))

Update ==
    \E key \in Keys, value \in Values :
        Install(UpdateNode(Cur, key, value))

Next == Insert \/ Update

Spec == Init /\ [][Next]_vars

\* ------------------------------------------------------- shared vocabulary

InsertOk == last.op = "insert" /\ last.outcome = "ok"

UpdateOk == last.op = "update" /\ last.outcome = "ok"

Failed == last.outcome \notin {"ok"}

\* No call so far was abandoned midway: each one returned, or was refused by
\* a check that precedes every write.
Whole == last.torn = 0

\* The capacity of a tree of depth d, as the contract states it.
Capacity(d) == 2 ^ d - 1

LiveNodes == {nodes[k] : k \in DOMAIN nodes}

\* The contract's combination of two child digests, either possibly absent.
HashPair(left, right) ==
    IF right = None THEN Keccak(left)
    ELSE IF left = None THEN Keccak(right)
    ELSE Keccak(left \o right)

\* ------------------------------------------------------------------- C1

\* The leaf level recomputed from a node set: each node's digest at its index.
LeafLevel(ns) ==
    [i \in {ns[k].index : k \in DOMAIN ns} |->
        NodeHash(CHOOSE n \in {ns[k] : k \in DOMAIN ns} : n.index = i)]

\* One level up: a parent exists where at least one child does.
ParentLevel(m) ==
    [j \in {i \div 2 : i \in DOMAIN m} |-> HashPair(MapGet(m, 2 * j), MapGet(m, 2 * j + 1))]

RECURSIVE TopDigest(_, _)
TopDigest(m, level) == IF level = 0 THEN m[0] ELSE TopDigest(ParentLevel(m), level - 1)

RecomputedRoot(ns, d, s) == Keccak(TopDigest(LeafLevel(ns), d) \o ToBeBytes(s))

\* C1: after any sequence of calls none of which was abandoned midway (any
\* sequence of successful insertions is one), the root maintained
\* incrementally equals the root recomputed in full from the current node
\* set (leaf digests at their indices, parents bottom-up as hash(left, right)
\* or hash(present child), top digest hashed with size).
C1_IncrementalRootIsRecomputedRoot ==
    Whole => root = RecomputedRoot(nodes, depth, size)

\* Two insertions succeeded, the later key below the earlier one.
C1_Witness ==
    /\ Whole
    /\ InsertOk
    /\ size >= 2
    /\ \E k \in DOMAIN nodes : k > last.key /\ nodes[k].index < nodes[last.key].index

\* ------------------------------------------------------------------- C2

\* The keys met when following next_key from key k, at most fuel of them.
RECURSIVE ChainFrom(_, _)
ChainFrom(k, fuel) ==
    IF fuel = 0 \/ k \notin DOMAIN nodes THEN <<>>
    ELSE IF nodes[k].next_key = KeyDefault THEN <<k>>
    ELSE <<k>> \o ChainFrom(nodes[k].next_key, fuel - 1)

Chain == ChainFrom(KeyDefault, Cardinality(DOMAIN nodes) + 1)

\* C2: following next_key from the sentinel (key minimal, index 0) visits
\* every live node exactly once in strictly increasing key order and ends at
\* the single node whose next_key is the sentinel value; keys are unique.
C2_ChainSortedAndComplete ==
    /\ KeyDefault \in DOMAIN nodes /\ nodes[KeyDefault].index = 0
    /\ \A k \in DOMAIN nodes : nodes[k].key = k
    /\ \A n1, n2 \in LiveNodes : n1.key = n2.key => n1 = n2
    /\ Len(Chain) = Cardinality(DOMAIN nodes)
    /\ {Chain[i] : i \in 1..Len(Chain)} = DOMAIN nodes
    /\ \A i \in 1..(Len(Chain) - 1) : Chain[i] < Chain[i + 1]
    /\ nodes[Chain[Len(Chain)]].next_key = KeyDefault
    /\ Cardinality({k \in DOMAIN nodes : nodes[k].next_key = KeyDefault}) = 1

\* A node was spliced between two others, then a call failed.
C2_Witness ==
    /\ Failed
    /\ Len(Chain) >= 3
    /\ \E k \in DOMAIN nodes :
        /\ k # KeyDefault /\ nodes[k].next_key # KeyDefault
        /\ nodes[k].index > nodes[nodes[k].next_key].index

\* ------------------------------------------------------------------- C3

\* C3: for every key absent from the tree exactly one live node is its low
\* nullifier, so the scan never fails and its result does not depend on the
\* iteration order; the node an insertion used is that node of the tree it
\* was called on.
C3_LowNullifierExistsUnique ==
    /\ \A k \in Keys \ DOMAIN nodes : Cardinality(LowNullifiers(Cur, k)) = 1
    /\ last.outcome # "failed to found ln node"
    /\ InsertOk => LowNullifiers(last.pre, last.key) = {last.ln_node}

\* A key is absent while a larger and a smaller key are live.
C3_Witness ==
    \E k \in Keys \ DOMAIN nodes :
        /\ \E lo \in DOMAIN nodes : lo < k
        /\ \E hi \in DOMAIN nodes : hi > k
        /\ InsertOk

\* ------------------------------------------------------------------- C4

\* C4: after a successful insert_node(k, v) exactly one node has next_key = k,
\* it is the node that was the low nullifier of k before the call, and the
\* new node's next_key is that node's next_key before the call.
C4_CorrectSplice ==
    InsertOk =>
        LET k == last.key
            preds == {x \in DOMAIN nodes : nodes[x].next_key = k}
        IN  /\ Cardinality(preds) = 1
            /\ \A x \in preds :
                /\ x \in DOMAIN last.pre.nodes
                /\ IsLnOf(last.pre.nodes[x], k)
                /\ nodes[k].next_key = last.pre.nodes[x].next_key

\* A key was inserted between an inserted node and that node's successor, as
\* 7 is between 5 and 10 in a tree of depth 2.
C4_Witness ==
    /\ InsertOk
    /\ depth = 2
    /\ last.ln_node.key # KeyDefault
    /\ nodes[last.key].next_key # KeyDefault
    /\ last.ln_node.next_key = nodes[last.key].next_key

\* ------------------------------------------------------------------- C5

\* The branch digest a verifier folds from a leaf digest and a sibling path:
\* left or right by the parity of the index, the child alone where the
\* sibling is absent.
RECURSIVE FoldPath(_, _, _)
FoldPath(hash, index, siblings) ==
    IF siblings = <<>> THEN hash
    ELSE LET s == Head(siblings)
             parent == IF index % 2 = 0 THEN HashPair(hash, s) ELSE HashPair(s, hash)
         IN  FoldPath(parent, index \div 2, Tail(siblings))

ProofRoot(node, siblings, s) ==
    Keccak(FoldPath(NodeHash(node), node.index, siblings) \o ToBeBytes(s))

\* C5: every (node, sibling path) pair of an insertion's bundle recomputes
\* its root: the predecessor's snapshot with ln_siblings and old_size gives
\* old_root; the new node with node_siblings, and the relinked predecessor
\* with updated_ln_siblings, give the new root with the new size.
C5_BundlePathsRecomputeRoots ==
    InsertOk =>
        /\ ProofRoot(last.ln_node, last.ln_siblings, last.old_size) = last.old_root
        /\ ProofRoot(last.node, last.node_siblings, last.old_size + 1) = root
        /\ ProofRoot([last.ln_node EXCEPT !.next_key = last.key],
                     last.updated_ln_siblings, last.old_size + 1) = root

\* The predecessor and the new leaf sit under different parents, so that the
\* predecessor's path changes with the insertion.
C5_Witness ==
    /\ InsertOk
    /\ depth >= 2
    /\ last.ln_node.index \div 2 # last.node.index \div 2
    /\ last.node_siblings[2] # None
    /\ last.ln_siblings # last.updated_ln_siblings

\* ------------------------------------------------------------------- C6

\* The position beside index at one level, as the contract states it.
Beside(index) == IF index % 2 = 0 THEN index + 1 ELSE index - 1

\* The sibling path of the leaf at index read from a cache: for each level
\* from the leaves up, the digest cached beside the leaf's ancestor.
SiblingPath(hs, d, index) ==
    [i \in 1..d |-> CacheGet(hs, d - i + 1, Beside(index \div (2 ^ (i - 1))))]

\* C6: the components of an insertion's bundle are captured at the prescribed
\* points: old_root and old_size from the tree as found, the predecessor's
\* snapshot and ln_siblings before its link is changed, the predecessor's
\* refresh before the new node is stored and refreshed, updated_ln_siblings
\* from the final cache.
C6_BundleCapturePoints ==
    InsertOk =>
        LET p == last.ln_node.key
        IN  /\ last.old_root = last.pre.root
            /\ last.old_size = last.pre.size
            /\ last.ln_node = last.pre.nodes[p]
            /\ last.ln_siblings = SiblingPath(last.pre.hashes, depth, last.ln_node.index)
            /\ last.key \notin DOMAIN last.mid.nodes
            /\ last.mid.nodes[p].next_key = last.key
            /\ CacheGet(last.mid.hashes, depth, last.ln_node.index) = NodeHash(last.mid.nodes[p])
            /\ CacheGet(last.mid.hashes, depth, last.node.index) = None
            /\ last.updated_ln_siblings = SiblingPath(hashes, depth, last.ln_node.index)

\* The insertion changed the predecessor's path and the root twice.
C6_Witness ==
    /\ InsertOk
    /\ last.ln_siblings # last.updated_ln_siblings
    /\ last.old_root # last.mid.root
    /\ last.mid.root # root

\* ------------------------------------------------------------------- C7

\* C7: insert_node on a tree holding 2^depth - 1 inserted nodes fails with
\* the overflow error for any key, present or not, and leaves root, size,
\* nodes and cache as they were; at depth 0 every insertion fails so.
C7_OverflowFailsUnchanged ==
    (last.op = "insert" /\ last.pre.size = Capacity(depth)) =>
        /\ last.outcome = "tree overflow"
        /\ Cur = last.pre

\* A full tree of depth 2 refused a key that it already holds.
C7_Witness ==
    /\ last.op = "insert"
    /\ last.outcome = "tree overflow"
    /\ depth = 2
    /\ last.key \in DOMAIN nodes \ {KeyDefault}

\* ------------------------------------------------------------------- C8

\* C8: insert_node of a key already present (the sentinel key included),
\* below capacity, fails with the key-conflict error and leaves root, size,
\* every node and the cache as they were.
C8_ConflictFailsUnchanged ==
    (/\ last.op = "insert"
     /\ last.pre.size < Capacity(depth)
     /\ last.key \in DOMAIN last.pre.nodes) =>
        /\ last.outcome = "key conflict"
        /\ Cur = last.pre

\* The sentinel key was refused by a tree that holds an inserted node.
C8_Witness ==
    /\ last.op = "insert"
    /\ last.outcome = "key conflict"
    /\ last.key = KeyDefault
    /\ size >= 1

\* ------------------------------------------------------------------- C9

\* C9: update_node of an absent key fails with the unknown-key error and
\* leaves root, size, nodes and cache as they were; update_node of a present
\* key never fails.
C9_UnknownKeyFailsUnchanged ==
    last.op = "update" =>
        IF last.key \in DOMAIN last.pre.nodes
        THEN last.outcome = "ok"
        ELSE last.outcome = "node does not exist" /\ Cur = last.pre

\* ------------------------------------------------------------------ C10

\* The position of the ancestor of leaf index at a level.
AncestorAt(index, level) == index \div (2 ^ (depth - level))

\* C10: a successful update_node(k, v) changes only the value of node k and
\* the cached digests on its leaf-to-top path (and the root): its index, key
\* and next_key, every other node, the size, the live keys and every cached
\* digest off that path are as before.
C10_UpdateFrame ==
    UpdateOk =>
        LET k == last.key
            pre == last.pre
        IN  /\ size = pre.size
            /\ DOMAIN nodes = DOMAIN pre.nodes
            /\ nodes[k] = [pre.nodes[k] EXCEPT !.value = last.value]
            /\ \A x \in DOMAIN nodes \ {k} : nodes[x] = pre.nodes[x]
            /\ DOMAIN hashes = DOMAIN pre.hashes
            /\ \A level \in DOMAIN hashes :
                /\ DOMAIN hashes[level] = DOMAIN pre.hashes[level]
                /\ \A pos \in DOMAIN hashes[level] \ {AncestorAt(nodes[k].index, level)} :
                    hashes[level][pos] = pre.hashes[level][pos]

\* The value of an inserted node changed, in a tree with digests off its path.
C10_Witness ==
    /\ UpdateOk
    /\ last.value # last.pre.nodes[last.key].value
    /\ nodes[last.key].index >= 1
    /\ root # last.pre.root
    /\ \E level \in DOMAIN hashes :
        DOMAIN hashes[level] \ {AncestorAt(nodes[last.key].index, level)} # {}

\* ------------------------------------------------------------------ C11

\* C11: size is the number of non-sentinel nodes of the registry and at most
\* 2^depth - 1; a successful insert grows it by exactly 1, update_node and
\* every failed call leave it as it was.
C11_SizeCountsInsertedNodes ==
    /\ size = Cardinality(DOMAIN nodes \ {KeyDefault})
    /\ size <= Capacity(depth)
    /\ InsertOk => size = last.pre.size + 1
    /\ (last.op = "update" \/ (last.op = "insert" /\ Failed)) => size = last.pre.size

\* ------------------------------------------------------------------ C12

\* C12: the indices of the live nodes are exactly 0..size, no two nodes share
\* one, the sentinel has index 0, the node an insertion creates has index
\* old_size + 1, and no call changes the index of a node.
C12_IndicesAppendOnly ==
    /\ {nodes[k].index : k \in DOMAIN nodes} = 0..size
    /\ \A k1, k2 \in DOMAIN nodes : nodes[k1].index = nodes[k2].index => k1 = k2
    /\ nodes[KeyDefault].index = 0
    /\ InsertOk =>
        /\ nodes[last.key].index = last.old_size + 1
        /\ last.node.index = last.pre.size + 1
    /\ last.op # "new" =>
        \A k \in DOMAIN last.pre.nodes :
            k \in DOMAIN nodes /\ nodes[k].index = last.pre.nodes[k].index

\* ------------------------------------------------------------------ C13

\* C13: for every live key refresh_tree returns exactly depth siblings, the
\* leaf-level sibling first and the root-adjacent one last, and siblings reads
\* the same sequence from the cache before and after that refresh; the paths
\* the calls returned are the paths siblings reads afterwards.
C13_RefreshAndSiblingsAgree ==
    /\ \A k \in DOMAIN nodes :
        LET r == RefreshTree(Cur, k)
            before == Siblings(Cur, k)
            after == Siblings(r.tree, k)
        IN  /\ r.outcome = "ok"
            /\ Len(r.siblings) = depth
            /\ r.siblings = SiblingPath(hashes, depth, nodes[k].index)
            /\ before.outcome = "ok" /\ before.siblings = r.siblings
            /\ after.outcome = "ok" /\ after.siblings = r.siblings
    /\ UpdateOk =>
        /\ last.node_siblings = SiblingPath(last.pre.hashes, depth, last.node.index)
        /\ last.node_siblings = SiblingPath(hashes, depth, last.node.index)
    /\ InsertOk => last.node_siblings = SiblingPath(hashes, depth, last.node.index)

\* ------------------------------------------------------------------ C14

\* The 8 bytes of n, least significant first.
RECURSIVE LittleEndian(_, _)
LittleEndian(n, count) ==
    IF count = 0 THEN <<>> ELSE <<n % 256>> \o LittleEndian(n \div 256, count - 1)

\* n as an 8-byte big-endian integer.
BigEndian8(n) == [i \in 1..8 |-> LittleEndian(n, 8)[9 - i]]

\* The digest cached at the top of the tree.
TopOfTree == CacheGet(hashes, 0, 0)

\* Sizes beside the reachable ones, across the byte boundaries.
SampleSizes == 0..9 \cup {255, 256, 257, 511, 512, 65535}

\* C14: after construction and after every successful call root is the hash
\* of the top-of-tree digest and the current size as an 8-byte big-endian
\* integer (old_size + 1 after an insert), so the same top digest with
\* another size gives another root.
C14_RootBindsSize ==
    (last.op = "new" \/ InsertOk \/ UpdateOk) =>
        /\ TopOfTree # None
        /\ root = Keccak(TopOfTree \o BigEndian8(size))
        /\ InsertOk => root = Keccak(TopOfTree \o BigEndian8(last.old_size + 1))
        /\ \A s \in SampleSizes \ {size} : RootHash(TopOfTree, s) # root

\* An update changed the root of a tree that holds two inserted nodes.
C14_Witness ==
    /\ UpdateOk
    /\ size = 2
    /\ root # last.pre.root

\* ------------------------------------------------------------------ C15

\* The positions refresh_tree and siblings computed a sibling for: the
\* ancestors of the live leaves at the levels 1..depth.
ReachedPositions == {AncestorAt(nodes[k].index, level) : k \in DOMAIN nodes, level \in 1..depth}

\* C15: at every position reached the sibling position is index + 1 for an
\* even index and index - 1 for an odd one, and no intermediate result of
\* index + (1 - 2 * (index mod 2)) falls outside the range of a u64.
C15_SiblingArithmeticInRange ==
    \A index \in ReachedPositions :
        /\ SiblingIndex(index) = Beside(index)
        /\ \A j \in 1..4 : SiblingIntermediates(index)[j] \in 0..(U64 - 1)

\* ------------------------------------------------------------------ C16

\* The cache positions on the leaf-to-top paths of the given leaf indices.
OnPaths(indices, level) == {AncestorAt(i, level) : i \in indices}

\* C16: a successful insert_node(k, v) removes no node, leaves index, key and
\* value of every earlier node, changes the next_key of exactly one earlier
\* node (the low nullifier of k, set to k) and changes cached digests only on
\* the paths of the predecessor and of the new leaf; update_node changes no
\* next_key.
C16_InsertFrame ==
    /\ InsertOk =>
        LET pre == last.pre
            k == last.key
            p == last.ln_node.key
            paths == {last.ln_node.index, last.node.index}
        IN  /\ DOMAIN nodes = DOMAIN pre.nodes \cup {k}
            /\ k \notin DOMAIN pre.nodes
            /\ \A x \in DOMAIN pre.nodes :
                /\ nodes[x].index = pre.nodes[x].index
                /\ nodes[x].key = pre.nodes[x].key
                /\ nodes[x].value = pre.nodes[x].value
            /\ {x \in DOMAIN pre.nodes : nodes[x].next_key # pre.nodes[x].next_key} = {p}
            /\ nodes[p].next_key = k
            /\ IsLnOf(pre.nodes[p], k)
            /\ \A level \in DOMAIN hashes :
                \A pos \in DOMAIN hashes[level] \ OnPaths(paths, level) :
                    hashes[level][pos] = CacheGet(pre.hashes, level, pos)
            /\ \A level \in DOMAIN pre.hashes :
                DOMAIN pre.hashes[level] \subseteq DOMAIN hashes[level]
    /\ last.op = "update" =>
        \A x \in DOMAIN last.pre.nodes :
            x \in DOMAIN nodes /\ nodes[x].next_key = last.pre.nodes[x].next_key

\* The third insertion of a tree of depth 2 left cached digests off both paths.
C16_Witness ==
    /\ InsertOk
    /\ depth = 2
    /\ size = 3
    /\ \E level \in DOMAIN hashes :
        DOMAIN hashes[level] \ OnPaths({last.ln_node.index, last.node.index}, level) # {}

\* ------------------------------------------------------------------ C17

NodeAt(i) == CHOOSE n \in LiveNodes : n.index = i

\* C17: after any interleaving of calls none of which was abandoned midway
\* (any interleaving of successful calls is one) the cache is consistent with
\* the node set: the leaf-level digest at each index 0..size is the hash of
\* the node that now has that index, and every digest above the leaf level is
\* the combination of the digests now cached for its children.
C17_CacheConsistent ==
    Whole =>
        /\ \A i \in 0..size :
            /\ \E n \in LiveNodes : n.index = i
            /\ CacheGet(hashes, depth, i) = NodeHash(NodeAt(i))
        /\ \A level \in DOMAIN hashes \ {depth} :
            \A pos \in DOMAIN hashes[level] :
                LET left == CacheGet(hashes, level + 1, 2 * pos)
                    right == CacheGet(hashes, level + 1, 2 * pos + 1)
                IN  /\ left # None \/ right # None
                    /\ hashes[level][pos] = HashPair(left, right)

\* The value of a node that became a predecessor was updated in a full tree
\* of depth 2.
C17_Witness ==
    /\ Whole
    /\ UpdateOk
    /\ depth = 2
    /\ size = 3
    /\ nodes[last.key].next_key # KeyDefault
    /\ nodes[last.key].index >= 1
    /\ last.value # last.pre.nodes[last.key].value

\* ------------------------------------------------------------------ C18

\* The parity of the ancestor of leaf index that reads the i-th path entry.
OddAt(index, i) == (index \div (2 ^ (i - 1))) % 2 = 1

\* Every path entry read beside a right child is a cached digest.
LeftSiblingsPresent(index, siblings) ==
    \A i \in 1..Len(siblings) : OddAt(index, i) => siblings[i] # None

\* C18: the populated cache positions of level L are exactly
\* 0..floor(size / 2^(depth - L)); so a refresh climbing from a right child
\* finds its left sibling cached, the (None, None) and (None, Some) cases are
\* never taken and only a right sibling can be absent.
C18_CachePrefixPopulated ==
    /\ DOMAIN hashes = 0..depth
    /\ \A level \in 0..depth : DOMAIN hashes[level] = 0..(size \div (2 ^ (depth - level)))
    /\ \A level \in DOMAIN hashes : \A pos \in DOMAIN hashes[level] :
        hashes[level][pos] \notin {None, Unreachable}
    /\ \A k \in DOMAIN nodes :
        LeftSiblingsPresent(nodes[k].index, RefreshTree(Cur, k).siblings)
    /\ InsertOk =>
        /\ LeftSiblingsPresent(last.ln_node.index, last.ln_siblings)
        /\ LeftSiblingsPresent(last.node.index, last.node_siblings)
        /\ LeftSiblingsPresent(last.ln_node.index, last.updated_ln_siblings)
    /\ UpdateOk => LeftSiblingsPresent(last.node.index, last.node_siblings)

\* ------------------------------------------------------------------ C19

\* The path entries at which the branches of two leaves are siblings.
MeetingEntries(i1, i2) ==
    {i \in 1..depth : Beside(i1 \div (2 ^ (i - 1))) = i2 \div (2 ^ (i - 1))}

\* C19: for a successful insert_node at depth >= 1 the predecessor's paths
\* before and after have the same length and differ in exactly one entry, the
\* one at the level where its branch and the new leaf's branch are siblings;
\* the predecessor's own refresh changes none of its sibling entries.
C19_PathsDifferAtMeetingLevel ==
    (InsertOk /\ depth >= 1) =>
        LET before == last.ln_siblings
            after == last.updated_ln_siblings
            changed == {i \in 1..depth : before[i] # after[i]}
        IN  /\ Len(before) = depth
            /\ Len(after) = depth
            /\ Cardinality(changed) = 1
            /\ changed = MeetingEntries(last.ln_node.index, last.node.index)
            /\ SiblingPath(last.mid.hashes, depth, last.ln_node.index) = before

\* The changed entry was a cached digest before the insertion, one level
\* above the leaves.
C19_Witness ==
    /\ InsertOk
    /\ depth = 2
    /\ last.ln_siblings[2] # None
    /\ last.ln_siblings[2] # last.updated_ln_siblings[2]

\* ------------------------------------------------------------------ C20

\* C20: the bundle of a successful update_node(k, v) carries the root before
\* the call, the unchanged size (kept in the field old_size of the model),
\* the path of the refresh of k's leaf and the node as it is after the
\* mutation: value v, equal to new_value, with the index, key and next_key it
\* had; the snapshot folded with the path and the size gives the new root.
C20_UpdateBundle ==
    UpdateOk =>
        LET was == last.pre.nodes[last.key]
        IN  /\ last.old_root = last.pre.root
            /\ last.old_size = size
            /\ size = last.pre.size
            /\ last.node_siblings = SiblingPath(hashes, depth, last.node.index)
            /\ last.node = nodes[last.key]
            /\ last.node.value = last.value
            /\ last.new_value = last.value
            /\ last.node.index = was.index
            /\ last.node.key = was.key
            /\ last.node.next_key = was.next_key
            /\ ProofRoot(last.node, last.node_siblings, last.old_size) = root

\* The value of the last leaf of a full tree of depth 2 was changed.
C20_Witness ==
    /\ UpdateOk
    /\ depth = 2
    /\ last.node.index = 3
    /\ last.value # last.pre.nodes[last.key].value
    /\ root # last.old_root

====
